---- MODULE Spec2Model ----
(***************************************************************************)
(* A model of the Wrap Up mail generator (src/wumm/src.py): the title/body *)
(* template of _build_email, the input validation of the form, the SQLite  *)
(* settings table (options) and the button handlers of main().             *)
(*                                                                         *)
(* Text.  A Python str is modelled as a sequence of characters, one        *)
(* one-character token per element.  An ASCII character is itself; a       *)
(* Hangul syllable is written as the romanisation of its jamo ("hong",     *)
(* "gil", "dong"), one token per syllable, so that strip(), "in", the      *)
(* f-string concatenations and line splitting are computed character by    *)
(* character.  No ASCII letter used below coincides with a romanised       *)
(* syllable.                                                               *)
(*                                                                         *)
(* Integers.  A Python int is unbounded; it is modelled by its sign and    *)
(* its canonical decimal digits, so that int(), str() and the 64-bit range *)
(* of an SQLite INTEGER are computed exactly.                              *)
(***************************************************************************)
EXTENDS Integers, Sequences, FiniteSets, TLC

(***************************************************************************)
(* Module-level constants of the program.                                  *)
(***************************************************************************)
LOCATION_OPTIONS ==
    << <<"seo", "ul">>, <<"dae", "jeon">>, <<"gwang", "ju">>,
       <<"gu", "mi">>, <<"bu", "ul", "gyeong">> >>

DAY_OF_WEEK_OPTIONS ==
    << <<"wol">>, <<"hwa">>, <<"su">>, <<"mog">>, <<"geum">>, <<"to">>, <<"il">> >>

\* The default resend reason, the literal of line 53.
DEFAULT_REASON ==
    <<"cheom", "bu", " ", "o", "ryu", "ro", " ", "in", "han", " ", "jae", "song", "bu">>

Range(s) == {s[i] : i \in 1..Len(s)}

(***************************************************************************)
(* Python str helpers.                                                     *)
(***************************************************************************)
\* The characters str.strip() and int() treat as whitespace.
Whitespace == {" ", "\t", "\n"}

RECURSIVE LStrip(_)
LStrip(s) ==
    IF s # <<>> /\ Head(s) \in Whitespace THEN LStrip(Tail(s)) ELSE s

RECURSIVE RStrip(_)
RStrip(s) ==
    IF s # <<>> /\ s[Len(s)] \in Whitespace
    THEN RStrip(SubSeq(s, 1, Len(s) - 1))
    ELSE s

\* str.strip()
Strip(s) == RStrip(LStrip(s))

\* needle in hay
Contains(hay, needle) ==
    \E i \in 1..(Len(hay) - Len(needle) + 1) :
        SubSeq(hay, i, i + Len(needle) - 1) = needle

\* s.split("\n")
RECURSIVE SplitLines(_)
SplitLines(s) ==
    IF \A i \in 1..Len(s) : s[i] # "\n"
    THEN <<s>>
    ELSE LET k == CHOOSE i \in 1..Len(s) :
                      s[i] = "\n" /\ \A j \in 1..(i - 1) : s[j] # "\n"
         IN  <<SubSeq(s, 1, k - 1)>> \o SplitLines(SubSeq(s, k + 1, Len(s)))

(***************************************************************************)
(* Python int: [neg, digits], digits canonical (no leading zero, zero is   *)
(* <<"0">> and never negative).                                            *)
(***************************************************************************)
Digits == {"0", "1", "2", "3", "4", "5", "6", "7", "8", "9"}

DigitVal(c) ==
    CASE c = "0" -> 0 [] c = "1" -> 1 [] c = "2" -> 2 [] c = "3" -> 3
      [] c = "4" -> 4 [] c = "5" -> 5 [] c = "6" -> 6 [] c = "7" -> 7
      [] c = "8" -> 8 [] c = "9" -> 9

RECURSIVE DropLeadingZeros(_)
DropLeadingZeros(ds) ==
    IF Len(ds) > 1 /\ Head(ds) = "0" THEN DropLeadingZeros(Tail(ds)) ELSE ds

\* The digits of a literal with its single underscores removed.
RECURSIVE DropUnderscores(_)
DropUnderscores(s) ==
    IF s = <<>> THEN <<>>
    ELSE IF Head(s) = "_" THEN DropUnderscores(Tail(s))
    ELSE <<Head(s)>> \o DropUnderscores(Tail(s))

\* digit (["_"] digit)*
IsDigitString(s) ==
    /\ s # <<>>
    /\ \A i \in 1..Len(s) : s[i] \in Digits \cup {"_"}
    /\ s[1] \in Digits
    /\ s[Len(s)] \in Digits
    /\ \A i \in 1..(Len(s) - 1) : ~(s[i] = "_" /\ s[i + 1] = "_")

NoInt == [ok |-> FALSE, neg |-> FALSE, digits |-> <<>>]

\* int(s) for a str s: surrounding whitespace is ignored, one sign is allowed,
\* anything else raises ValueError (ok = FALSE).
ParseInt(s) ==
    LET t    == Strip(s)
        sgn  == t # <<>> /\ Head(t) \in {"+", "-"}
        body == IF sgn THEN Tail(t) ELSE t
    IN  IF ~IsDigitString(body) THEN NoInt
        ELSE LET ds == DropLeadingZeros(DropUnderscores(body))
             IN  [ok     |-> TRUE,
                  neg    |-> sgn /\ Head(t) = "-" /\ ds # <<"0">>,
                  digits |-> ds]

\* str(n)
IntToStr(n) == (IF n.neg THEN <<"-">> ELSE <<>>) \o n.digits

\* a < b for digit strings of equal length
RECURSIVE DigitsLess(_, _)
DigitsLess(a, b) ==
    /\ a # <<>>
    /\ \/ DigitVal(Head(a)) < DigitVal(Head(b))
       \/ Head(a) = Head(b) /\ DigitsLess(Tail(a), Tail(b))

\* 2^63, the first magnitude an SQLite INTEGER cannot hold as a positive value.
INT64_LIMIT ==
    <<"9", "2", "2", "3", "3", "7", "2", "0", "3", "6", "8", "5", "4", "7", "7",
      "5", "8", "0", "8">>

\* Whether sqlite3 can bind the Python int n (else OverflowError).
FitsInt64(n) ==
    \/ Len(n.digits) < Len(INT64_LIMIT)
    \/ /\ Len(n.digits) = Len(INT64_LIMIT)
       /\ \/ DigitsLess(n.digits, INT64_LIMIT)
          \/ n.neg /\ n.digits = INT64_LIMIT

\* int(b) and bool(i)
BoolToInt(b) == IF b THEN 1 ELSE 0

IntToBool(i) == i # 0

(***************************************************************************)
(* _build_email: the title and the body.                                   *)
(***************************************************************************)
\* A variant that ignores the reason it is given.
ReasonAlwaysDefault(resend_reason) == DEFAULT_REASON

\* resend_reason or "..." (line 53): the default replaces only the empty str.
ReasonOrDefault(resend_reason) ==
    IF resend_reason = <<>> THEN DEFAULT_REASON ELSE resend_reason

BaseSubject(cardinal_number, location, name, nth_day) ==
    <<"[", "S", "S", "A", "F", "Y", "]", " ">> \o IntToStr(cardinal_number)
        \o <<"gi", " ">> \o location
        \o <<" ", "sil", "seub", "ko", "chi", " ">> \o name \o <<" ">>
        \o IntToStr(nth_day)
        \o <<"il", "cha", " ", "W", "r", "a", "p", " ", "U", "p">>

Greeting(cardinal_number, location, name) ==
    <<"an", "nyeong", "ha", "sib", "ni", "kka", ",", " ">>
        \o IntToStr(cardinal_number) \o <<"gi", " ">> \o location
        \o <<" ", "sil", "seub", "ko", "chi", " ">> \o name
        \o <<"ib", "ni", "da", ".", "\n", "\n">>

DateText(nth_day, month, day, day_of_week) ==
    IntToStr(month) \o <<"wol", " ">> \o IntToStr(day) \o <<"il", "(">>
        \o day_of_week \o <<")", " ">> \o IntToStr(nth_day)

Closing(name) ==
    <<"teug", "i", "sa", "hang", "\n">>
        \o <<"-", " ", "hae", "dang", " ", "sa", "hang", " ", "eobs", "eum", ".", "\n", "\n">>
        \o <<"gam", "sa", "hab", "ni", "da", ".", "\n">>
        \o name \o <<" ", "deu", "rim", ".">>

\* The line of the resend body that carries the reason (line 56).
ResendLine(nth_day, month, day, day_of_week, reason) ==
    DateText(nth_day, month, day, day_of_week)
        \o <<"il", "cha", " ", "W", "r", "a", "p", " ", "U", "p", "bo", "go", "seo", "reul", " ">>
        \o reason
        \o <<" ", "sa", "yu", "ro", " ", "jae", "song", "bu", "deu", "rib", "ni", "da", ".">>

\* A variant that spells the attachment line as the resend line is spelled,
\* without the space after "Wrap Up".
AttachLineNoSpace(nth_day, month, day, day_of_week) ==
    DateText(nth_day, month, day, day_of_week)
        \o <<"il", "cha", " ", "W", "r", "a", "p", " ", "U", "p", "bo", "go", "seo", "reul", " ">>
        \o <<"cheom", "bu", "ha", "yeo", " ", "song", "bu", "deu", "rib", "ni", "da", ".">>

\* The attachment line of the ordinary body (line 66).
AttachLine(nth_day, month, day, day_of_week) ==
    DateText(nth_day, month, day, day_of_week)
        \o <<"il", "cha", " ", "W", "r", "a", "p", " ", "U", "p", " ", "bo", "go", "seo", "reul", " ">>
        \o <<"cheom", "bu", "ha", "yeo", " ", "song", "bu", "deu", "rib", "ni", "da", ".">>

_build_email(cardinal_number, location, name, nth_day, month, day, day_of_week, resend, resend_reason) ==
    LET base_subject == BaseSubject(cardinal_number, location, name, nth_day)
    IN  IF resend
        THEN [title   |-> base_subject \o <<" ", "jae", "song", "bu">>,
              content |-> Greeting(cardinal_number, location, name)
                            \o ResendLine(nth_day, month, day, day_of_week,
                                          ReasonOrDefault(resend_reason))
                            \o <<"\n", "\n">> \o Closing(name)]
        ELSE [title   |-> base_subject \o <<" ", "song", "bu">>,
              content |-> Greeting(cardinal_number, location, name)
                            \o AttachLine(nth_day, month, day, day_of_week)
                            \o <<"\n", "\n">> \o Closing(name)]

(***************************************************************************)
(* The settings table.  db is the file wrapup_settings.db: whether the     *)
(* table options exists, and its rows in insertion (rowid) order.          *)
(***************************************************************************)
NoDb == [exists |-> FALSE, rows |-> <<>>]

\* A variant that creates the table anew on every start.
_init_db_recreate(d) == [exists |-> TRUE, rows |-> <<>>]

\* CREATE TABLE IF NOT EXISTS options (...)
_init_db(d) ==
    IF d.exists THEN d ELSE [exists |-> TRUE, rows |-> <<>>]

\* The row INSERT adds: id from AUTOINCREMENT, saved_at from CURRENT_TIMESTAMP
\* (ts, whole seconds), resend as int(resend).
NewRow(d, cardinal_number, location, name, nth_day, month, day, day_of_week, resend, resend_reason, ts) ==
    [id            |-> Len(d.rows) + 1,
     cardinal      |-> cardinal_number,
     location      |-> location,
     name          |-> name,
     nth_day       |-> nth_day,
     month         |-> month,
     day           |-> day,
     day_of_week   |-> day_of_week,
     resend        |-> BoolToInt(resend),
     resend_reason |-> resend_reason,
     saved_at      |-> ts]

\* A variant whose parameter tuple lists day before month.
_save_options_swapped(d, cardinal_number, location, name, nth_day, month, day, day_of_week, resend, resend_reason, ts) ==
    IF /\ d.exists
       /\ \A n \in {cardinal_number, nth_day, month, day} : FitsInt64(n)
    THEN [raised |-> FALSE,
          db     |-> [d EXCEPT !.rows =
                        Append(@, NewRow(d, cardinal_number, location, name,
                                         nth_day, day, month, day_of_week,
                                         resend, resend_reason, ts))]]
    ELSE [raised |-> TRUE, db |-> d]

\* _save_options at time ts: the new file contents, or raised = TRUE (and the
\* file as it was) when sqlite3 cannot bind a parameter or the table is missing.
_save_options(d, cardinal_number, location, name, nth_day, month, day, day_of_week, resend, resend_reason, ts) ==
    IF /\ d.exists
       /\ \A n \in {cardinal_number, nth_day, month, day} : FitsInt64(n)
    THEN [raised |-> FALSE,
          db     |-> [d EXCEPT !.rows =
                        Append(@, NewRow(d, cardinal_number, location, name,
                                         nth_day, month, day, day_of_week,
                                         resend, resend_reason, ts))]]
    ELSE [raised |-> TRUE, db |-> d]

\* dict(row) over the nine selected columns; None when fetchone() finds no row.
None == [found |-> FALSE]

RowDict(r) ==
    [found         |-> TRUE,
     cardinal      |-> r.cardinal,
     location      |-> r.location,
     name          |-> r.name,
     nth_day       |-> r.nth_day,
     month         |-> r.month,
     day           |-> r.day,
     day_of_week   |-> r.day_of_week,
     resend        |-> r.resend,
     resend_reason |-> r.resend_reason]

\* The rows ORDER BY saved_at DESC may put first: every row whose saved_at is
\* the greatest.  SQL leaves the order among equal saved_at values undefined.
LatestRows(d) ==
    {d.rows[i] : i \in {j \in 1..Len(d.rows) :
                          \A k \in 1..Len(d.rows) :
                              d.rows[k].saved_at <= d.rows[j].saved_at}}

\* A variant that skips the newest row (LIMIT 1 OFFSET 1).
_load_skip_newest(d) ==
    IF Len(d.rows) <= 1 THEN {None}
    ELSE {RowDict(d.rows[i]) : i \in 1..(Len(d.rows) - 1)}

\* _load_latest_options: the values the call can return.
_load_latest_options(d) ==
    IF d.rows = <<>> THEN {None} ELSE {RowDict(r) : r \in LatestRows(d)}

(***************************************************************************)
(* The message boxes of the handlers (title: message, romanised).          *)
(***************************************************************************)
NoMsg == "none"
ERR_NAME == "showerror: ireumeul ibryeoghaseyo."
ERR_NUMBER == "showerror: susja ibryeograneul hwaginhaseyo."
ERR_WEEKDAY == "showerror: yoireul seontaeghaseyo."
MSG_SAVED == "showinfo: obsyeoneul jeojanghaessseubnida."
MSG_NOTHING_SAVED == "showinfo: jeojangdoen obsyeoni eobsseubnida."
MSG_LOADED == "showinfo: majimageuro jeojanghan obsyeoneul bulleowassseubnida."

(***************************************************************************)
(* Bounds of the model and the inputs the user actions draw from.          *)
(***************************************************************************)
\* The most rows the model saves.
MaxRows == 2

\* The last second of the clock CURRENT_TIMESTAMP reads.
MaxClock == 1

NAME_HONG == <<"hong", "gil", "dong">>

REASON_DELAY == <<"ji", "yeon">>

\* What the user types or picks in a run of the form.
NameInputs == { <<" ">> \o NAME_HONG \o <<" ">> }

CardinalInputs == { <<"x">> }

MonthInputs == { <<"3">> }

DayInputs == { <<"1", "4">> }

LocationChoices == { LOCATION_OPTIONS[1], LOCATION_OPTIONS[2] }

DayOfWeekChoices == { DAY_OF_WEEK_OPTIONS[4] }

\* What _today() can return: (month, day, datetime.weekday()).
TodayChoices ==
    { [month   |-> [neg |-> FALSE, digits |-> <<"3">>],
       day     |-> [neg |-> FALSE, digits |-> <<"1", "4">>],
       weekday |-> 3] }

VARIABLES
    db,                   \* the settings file
    now,                  \* the clock, in seconds
    cardinal_var,         \* the StringVar/BooleanVar of the form
    location_var,
    name_var,
    nth_day_var,
    month_var,
    day_var,
    day_of_week_var,
    resend_var,
    resend_reason_var,
    resend_reason_entry,  \* the state of the reason entry: "normal" | "disabled"
    title_text,           \* the two result Text widgets
    content_text,
    last                  \* the last user action, its message box, what Load read

formVars == <<cardinal_var, location_var, name_var, nth_day_var, month_var,
              day_var, day_of_week_var, resend_var, resend_reason_var,
              resend_reason_entry>>

textVars == <<title_text, content_text>>

vars == <<db, now, formVars, textVars, last>>

Did(op, msg) == [op |-> op, msg |-> msg, data |-> None]

\* on_toggle_resend: the entry state that follows a value of resend_var.
on_toggle_resend(resend) == IF resend THEN "normal" ELSE "disabled"

\* The widgets as main() builds them (and as on_reset leaves the fields).
FreshForm ==
    /\ cardinal_var' = <<"0">>
    /\ location_var' = LOCATION_OPTIONS[1]
    /\ name_var' = <<>>
    /\ nth_day_var' = <<"1">>
    /\ month_var' = <<>>
    /\ day_var' = <<>>
    /\ day_of_week_var' = <<>>
    /\ resend_var' = FALSE
    /\ resend_reason_var' = <<>>
    /\ resend_reason_entry' = on_toggle_resend(FALSE)

\* The first start of the program, where no settings file exists yet.
Init ==
    /\ db = _init_db(NoDb)
    /\ now = 0
    /\ cardinal_var = <<"0">>
    /\ location_var = LOCATION_OPTIONS[1]
    /\ name_var = <<>>
    /\ nth_day_var = <<"1">>
    /\ month_var = <<>>
    /\ day_var = <<>>
    /\ day_of_week_var = <<>>
    /\ resend_var = FALSE
    /\ resend_reason_var = <<>>
    /\ resend_reason_entry = on_toggle_resend(FALSE)
    /\ title_text = <<>>
    /\ content_text = <<>>
    /\ last = Did("main", NoMsg)

\* The program is closed and started again: _init_db on the file as it is,
\* then a fresh window.
main ==
    /\ db' = _init_db(db)
    /\ FreshForm
    /\ title_text' = <<>>
    /\ content_text' = <<>>
    /\ last' = Did("main", NoMsg)
    /\ UNCHANGED now

\* A second passes.
Tick ==
    /\ now < MaxClock
    /\ now' = now + 1
    /\ UNCHANGED <<db, formVars, textVars, last>>

(***************************************************************************)
(* The input widgets.                                                      *)
(***************************************************************************)
EditName(v) ==
    /\ name_var' = v
    /\ last' = Did("edit", NoMsg)
    /\ UNCHANGED <<db, now, cardinal_var, location_var, nth_day_var, month_var,
                   day_var, day_of_week_var, resend_var, resend_reason_var,
                   resend_reason_entry, textVars>>

EditCardinal(v) ==
    /\ cardinal_var' = v
    /\ last' = Did("edit", NoMsg)
    /\ UNCHANGED <<db, now, location_var, name_var, nth_day_var, month_var,
                   day_var, day_of_week_var, resend_var, resend_reason_var,
                   resend_reason_entry, textVars>>

EditMonth(v) ==
    /\ month_var' = v
    /\ last' = Did("edit", NoMsg)
    /\ UNCHANGED <<db, now, cardinal_var, location_var, name_var, nth_day_var,
                   day_var, day_of_week_var, resend_var, resend_reason_var,
                   resend_reason_entry, textVars>>

EditDay(v) ==
    /\ day_var' = v
    /\ last' = Did("edit", NoMsg)
    /\ UNCHANGED <<db, now, cardinal_var, location_var, name_var, nth_day_var,
                   month_var, day_of_week_var, resend_var, resend_reason_var,
                   resend_reason_entry, textVars>>

\* The two comboboxes are read-only: only a listed value can be picked.
SelectLocation(v) ==
    /\ v \in Range(LOCATION_OPTIONS)
    /\ location_var' = v
    /\ last' = Did("edit", NoMsg)
    /\ UNCHANGED <<db, now, cardinal_var, name_var, nth_day_var, month_var,
                   day_var, day_of_week_var, resend_var, resend_reason_var,
                   resend_reason_entry, textVars>>

SelectDayOfWeek(v) ==
    /\ v \in Range(DAY_OF_WEEK_OPTIONS)
    /\ day_of_week_var' = v
    /\ last' = Did("edit", NoMsg)
    /\ UNCHANGED <<db, now, cardinal_var, location_var, name_var, nth_day_var,
                   month_var, day_var, resend_var, resend_reason_var,
                   resend_reason_entry, textVars>>

\* A click on the resend checkbutton; the trace on resend_var runs
\* on_toggle_resend.
ClickResend ==
    /\ resend_var' = ~resend_var
    /\ resend_reason_entry' = on_toggle_resend(~resend_var)
    /\ last' = Did("toggle", NoMsg)
    /\ UNCHANGED <<db, now, cardinal_var, location_var, name_var, nth_day_var,
                   month_var, day_var, day_of_week_var, resend_reason_var,
                   textVars>>

(***************************************************************************)
(* The button handlers.                                                    *)
(***************************************************************************)
\* on_today, with _today() read from the system clock.
on_today ==
    \E t \in TodayChoices :
        /\ month_var' = IntToStr(t.month)
        /\ day_var' = IntToStr(t.day)
        /\ day_of_week_var' = DAY_OF_WEEK_OPTIONS[t.weekday + 1]
        /\ last' = Did("on_today", NoMsg)
        /\ UNCHANGED <<db, now, cardinal_var, location_var, name_var,
                       nth_day_var, resend_var, resend_reason_var,
                       resend_reason_entry, textVars>>

on_reset ==
    /\ FreshForm
    /\ title_text' = <<>>
    /\ content_text' = <<>>
    /\ last' = Did("on_reset", NoMsg)
    /\ UNCHANGED <<db, now>>

\* Variants of the validator: one without the weekday rule, one that checks
\* the weekday before the numbers, one that returns the name as typed.
_validate_without_weekday ==
    LET name     == Strip(name_var)
        cardinal == ParseInt(cardinal_var)
        nth      == ParseInt(nth_day_var)
        month    == ParseInt(month_var)
        day      == ParseInt(day_var)
        dow      == Strip(day_of_week_var)
    IN  IF name = <<>> THEN [ok |-> FALSE, error |-> ERR_NAME]
        ELSE IF ~(cardinal.ok /\ nth.ok /\ month.ok /\ day.ok)
        THEN [ok |-> FALSE, error |-> ERR_NUMBER]
        ELSE [ok       |-> TRUE,
              error    |-> NoMsg,
              cardinal |-> [neg |-> cardinal.neg, digits |-> cardinal.digits],
              nth      |-> [neg |-> nth.neg, digits |-> nth.digits],
              month    |-> [neg |-> month.neg, digits |-> month.digits],
              day      |-> [neg |-> day.neg, digits |-> day.digits],
              dow      |-> dow,
              name     |-> name]

_validate_weekday_first ==
    LET name     == Strip(name_var)
        cardinal == ParseInt(cardinal_var)
        nth      == ParseInt(nth_day_var)
        month    == ParseInt(month_var)
        day      == ParseInt(day_var)
        dow      == Strip(day_of_week_var)
    IN  IF name = <<>> THEN [ok |-> FALSE, error |-> ERR_NAME]
        ELSE IF dow \notin Range(DAY_OF_WEEK_OPTIONS)
        THEN [ok |-> FALSE, error |-> ERR_WEEKDAY]
        ELSE IF ~(cardinal.ok /\ nth.ok /\ month.ok /\ day.ok)
        THEN [ok |-> FALSE, error |-> ERR_NUMBER]
        ELSE [ok       |-> TRUE,
              error    |-> NoMsg,
              cardinal |-> [neg |-> cardinal.neg, digits |-> cardinal.digits],
              nth      |-> [neg |-> nth.neg, digits |-> nth.digits],
              month    |-> [neg |-> month.neg, digits |-> month.digits],
              day      |-> [neg |-> day.neg, digits |-> day.digits],
              dow      |-> dow,
              name     |-> name]

_validate_raw_name ==
    LET name     == Strip(name_var)
        cardinal == ParseInt(cardinal_var)
        nth      == ParseInt(nth_day_var)
        month    == ParseInt(month_var)
        day      == ParseInt(day_var)
        dow      == Strip(day_of_week_var)
    IN  IF name = <<>> THEN [ok |-> FALSE, error |-> ERR_NAME]
        ELSE IF ~(cardinal.ok /\ nth.ok /\ month.ok /\ day.ok)
        THEN [ok |-> FALSE, error |-> ERR_NUMBER]
        ELSE IF dow \notin Range(DAY_OF_WEEK_OPTIONS)
        THEN [ok |-> FALSE, error |-> ERR_WEEKDAY]
        ELSE [ok       |-> TRUE,
              error    |-> NoMsg,
              cardinal |-> [neg |-> cardinal.neg, digits |-> cardinal.digits],
              nth      |-> [neg |-> nth.neg, digits |-> nth.digits],
              month    |-> [neg |-> month.neg, digits |-> month.digits],
              day      |-> [neg |-> day.neg, digits |-> day.digits],
              dow      |-> dow,
              name     |-> name_var]

\* _validate_common_inputs on the form as it stands: the tuple it returns
\* (ok = TRUE), or None after the error box it shows (ok = FALSE).
_validate_common_inputs ==
    LET name     == Strip(name_var)
        cardinal == ParseInt(cardinal_var)
        nth      == ParseInt(nth_day_var)
        month    == ParseInt(month_var)
        day      == ParseInt(day_var)
        dow      == Strip(day_of_week_var)
    IN  IF name = <<>> THEN [ok |-> FALSE, error |-> ERR_NAME]
        ELSE IF ~(cardinal.ok /\ nth.ok /\ month.ok /\ day.ok)
        THEN [ok |-> FALSE, error |-> ERR_NUMBER]
        ELSE IF dow \notin Range(DAY_OF_WEEK_OPTIONS)
        THEN [ok |-> FALSE, error |-> ERR_WEEKDAY]
        ELSE [ok       |-> TRUE,
              error    |-> NoMsg,
              cardinal |-> [neg |-> cardinal.neg, digits |-> cardinal.digits],
              nth      |-> [neg |-> nth.neg, digits |-> nth.digits],
              month    |-> [neg |-> month.neg, digits |-> month.digits],
              day      |-> [neg |-> day.neg, digits |-> day.digits],
              dow      |-> dow,
              name     |-> name]

\* A variant of Generate that also stores the field-set it renders.
on_generate_and_save ==
    LET validated == _validate_common_inputs
    IN  IF ~validated.ok
        THEN /\ last' = Did("on_generate", validated.error)
             /\ UNCHANGED <<db, now, formVars, textVars>>
        ELSE LET mail == _build_email(validated.cardinal, location_var,
                                      validated.name, validated.nth,
                                      validated.month, validated.day,
                                      validated.dow, resend_var,
                                      Strip(resend_reason_var))
             IN  /\ Len(db.rows) < MaxRows
                 /\ title_text' = mail.title
                 /\ content_text' = mail.content
                 /\ db' = _save_options(db, validated.cardinal, location_var,
                                        validated.name, validated.nth,
                                        validated.month, validated.day,
                                        validated.dow, resend_var,
                                        Strip(resend_reason_var), now).db
                 /\ last' = Did("on_generate", NoMsg)
                 /\ UNCHANGED <<now, formVars>>

on_generate ==
    LET validated == _validate_common_inputs
    IN  IF ~validated.ok
        THEN /\ last' = Did("on_generate", validated.error)
             /\ UNCHANGED <<db, now, formVars, textVars>>
        ELSE LET mail == _build_email(validated.cardinal, location_var,
                                      validated.name, validated.nth,
                                      validated.month, validated.day,
                                      validated.dow, resend_var,
                                      Strip(resend_reason_var))
             IN  /\ title_text' = mail.title
                 /\ content_text' = mail.content
                 /\ last' = Did("on_generate", NoMsg)
                 /\ UNCHANGED <<db, now, formVars>>

\* What the handler leaves behind when _save_options raises: no message box.
RAISED == "raised: OverflowError"

on_save_options ==
    LET validated == _validate_common_inputs
    IN  IF ~validated.ok
        THEN /\ last' = Did("on_save_options", validated.error)
             /\ UNCHANGED <<db, now, formVars, textVars>>
        ELSE LET saved == _save_options(db, validated.cardinal, location_var,
                                        validated.name, validated.nth,
                                        validated.month, validated.day,
                                        validated.dow, resend_var,
                                        Strip(resend_reason_var), now)
             IN  /\ Len(db.rows) < MaxRows
                 /\ db' = saved.db
                 /\ last' = Did("on_save_options",
                                IF saved.raised THEN RAISED ELSE MSG_SAVED)
                 /\ UNCHANGED <<now, formVars, textVars>>

on_load_options ==
    \E data \in _load_latest_options(db) :
        IF ~data.found
        THEN /\ last' = [op |-> "on_load_options", msg |-> MSG_NOTHING_SAVED,
                         data |-> data]
             /\ UNCHANGED <<db, now, formVars, textVars>>
        ELSE /\ cardinal_var' = IntToStr(data.cardinal)
             /\ location_var' = data.location
             /\ name_var' = data.name
             /\ nth_day_var' = IntToStr(data.nth_day)
             /\ month_var' = IntToStr(data.month)
             /\ day_var' = IntToStr(data.day)
             /\ day_of_week_var' = data.day_of_week
             /\ resend_var' = IntToBool(data.resend)
             /\ resend_reason_var' = data.resend_reason
             /\ resend_reason_entry' = on_toggle_resend(IntToBool(data.resend))
             /\ last' = [op |-> "on_load_options", msg |-> MSG_LOADED,
                         data |-> data]
             /\ UNCHANGED <<db, now, textVars>>

(***************************************************************************)
(* The program: any sequence of user actions on the form, of restarts and  *)
(* of seconds passing.                                                     *)
(***************************************************************************)
Next ==
    \/ main
    \/ Tick
    \/ \E v \in NameInputs : EditName(v)
    \/ \E v \in CardinalInputs : EditCardinal(v)
    \/ \E v \in MonthInputs : EditMonth(v)
    \/ \E v \in DayInputs : EditDay(v)
    \/ \E v \in LocationChoices : SelectLocation(v)
    \/ \E v \in DayOfWeekChoices : SelectDayOfWeek(v)
    \/ on_today
    \/ on_reset
    \/ on_generate
    \/ on_save_options
    \/ on_load_options

Spec == Init /\ [][Next]_vars

(***************************************************************************)
(* The handlers applied to form contents drawn from wider sets of texts.   *)
(***************************************************************************)
NameTexts ==
    { <<>>, <<" ">>, <<" ">> \o NAME_HONG \o <<" ">>, DEFAULT_REASON }

ReasonTexts ==
    { <<>>, <<" ">>, <<" ">> \o REASON_DELAY \o <<" ">>, DEFAULT_REASON }

CardinalTexts ==
    { <<"1", "3">>, <<" ", "0", "_", "7">>, <<"x">>,
      <<"1", "0", "0", "0", "0", "0", "0", "0", "0", "0", "0", "0", "0", "0",
        "0", "0", "0", "0", "0", "0">> }

NthDayTexts == { <<"5">>, <<"1", ".", "5">> }

MonthTexts == { <<"3">>, <<>> }

DayTexts == { <<"1", "4">>, <<"4", "a">> }

DayOfWeekTexts == { DAY_OF_WEEK_OPTIONS[4], <<>> }

InitInputs ==
    /\ db = _init_db(NoDb)
    /\ now = 0
    /\ cardinal_var \in CardinalTexts
    /\ location_var = LOCATION_OPTIONS[1]
    /\ name_var \in NameTexts
    /\ nth_day_var \in NthDayTexts
    /\ month_var \in MonthTexts
    /\ day_var \in DayTexts
    /\ day_of_week_var \in DayOfWeekTexts
    /\ resend_var \in BOOLEAN
    /\ resend_reason_var \in ReasonTexts
    /\ resend_reason_entry = on_toggle_resend(resend_var)
    /\ title_text = <<>>
    /\ content_text = <<>>
    /\ last = Did("edit", NoMsg)

NextInputs ==
    \/ ClickResend
    \/ on_today
    \/ on_reset
    \/ on_generate
    \/ on_save_options
    \/ on_load_options

SpecInputs == InitInputs /\ [][NextInputs]_vars

(***************************************************************************)
(* Vocabulary of the properties, stated on the form and the store without  *)
(* going through the validator.                                            *)
(***************************************************************************)
NumberTexts == <<cardinal_var, nth_day_var, month_var, day_var>>

NameIsEmpty == Strip(name_var) = <<>>

SomeNumberFails == \E i \in 1..Len(NumberTexts) : ~ParseInt(NumberTexts[i]).ok

WeekdayIsUnknown == Strip(day_of_week_var) \notin Range(DAY_OF_WEEK_OPTIONS)

InputInvalid == NameIsEmpty \/ SomeNumberFails \/ WeekdayIsUnknown

IntOf(text) == [neg |-> ParseInt(text).neg, digits |-> ParseInt(text).digits]

\* The field-set a valid form denotes.
FormFieldSet ==
    [cardinal      |-> IntOf(cardinal_var),
     location      |-> location_var,
     name          |-> Strip(name_var),
     nth_day       |-> IntOf(nth_day_var),
     month         |-> IntOf(month_var),
     day           |-> IntOf(day_var),
     day_of_week   |-> Strip(day_of_week_var),
     resend        |-> resend_var,
     resend_reason |-> Strip(resend_reason_var)]

\* Whether the record Load read equals the field-set fs, column by column
\* (resend comes back as the int Python compares equal to the bool).
SameFields(data, fs) ==
    /\ data.found
    /\ data.cardinal = fs.cardinal
    /\ data.location = fs.location
    /\ data.name = fs.name
    /\ data.nth_day = fs.nth_day
    /\ data.month = fs.month
    /\ data.day = fs.day
    /\ data.day_of_week = fs.day_of_week
    /\ data.resend = BoolToInt(fs.resend)
    /\ data.resend_reason = fs.resend_reason

Loaded == last.op = "on_load_options"

Generated == last.op = "on_generate" /\ last.msg = NoMsg

Saved == last.op = "on_save_options" /\ last.msg = MSG_SAVED

(***************************************************************************)
(* C1.  After any sequence of saves, Load returns the field-set of the     *)
(* save performed last, also when two saves fall in the same second.       *)
(***************************************************************************)
C1_LoadReturnsLastSave ==
    (Loaded /\ db.rows # <<>>) => last.data = RowDict(db.rows[Len(db.rows)])

C3_AppendOnly ==
    [][/\ Len(db'.rows) >= Len(db.rows)
       /\ \A i \in 1..Len(db.rows) : db'.rows[i] = db.rows[i]
       /\ main => db'.rows = db.rows
       /\ on_load_options => db'.rows = db.rows
       /\ (on_save_options /\ last'.msg = MSG_SAVED)
             => Len(db'.rows) = Len(db.rows) + 1
       /\ Len(db'.rows) # Len(db.rows)
             => (on_save_options /\ last'.msg = MSG_SAVED)]_vars

C3_Witness == last.op = "main" /\ Len(db.rows) >= 2

(***************************************************************************)
(* C4.  When the form is invalid (empty trimmed name, a number that does   *)
(* not parse, an unknown weekday), Save leaves the stored rows and         *)
(* Generate leaves the displayed title and body as they were.              *)
(***************************************************************************)
C4_FailedValidationDoesNothing ==
    [][(InputInvalid /\ (on_save_options \/ on_generate))
          => (db' = db /\ title_text' = title_text
                       /\ content_text' = content_text)]_vars

C4_Witness ==
    /\ last.op \in {"on_save_options", "on_generate"}
    /\ last.msg = ERR_WEEKDAY
    /\ db.rows # <<>>

(***************************************************************************)
(* C5.  The validator applies its rules in a fixed order: an empty trimmed *)
(* name is EmptyName whatever else holds; otherwise a number that does not *)
(* parse is NotANumber whatever the weekday; otherwise an unknown weekday  *)
(* is InvalidWeekday; otherwise the input is accepted with the trimmed     *)
(* name, the trimmed weekday and the parsed integers.  Generate and Save   *)
(* show exactly that outcome.                                              *)
(***************************************************************************)
ExpectedError ==
    IF NameIsEmpty THEN ERR_NAME
    ELSE IF SomeNumberFails THEN ERR_NUMBER
    ELSE IF WeekdayIsUnknown THEN ERR_WEEKDAY
    ELSE NoMsg

\* C5: the validator's outcome, and the message Generate and Save show, follow
\* the order name, numbers, weekday; an accepted input is returned trimmed and
\* parsed.
C5_ValidatorPrecedence ==
    LET v == _validate_common_inputs
    IN  /\ v.ok = ~InputInvalid
        /\ v.error = ExpectedError
        /\ v.ok => /\ v.name = FormFieldSet.name
                   /\ v.dow = FormFieldSet.day_of_week
                   /\ v.cardinal = FormFieldSet.cardinal
                   /\ v.nth = FormFieldSet.nth_day
                   /\ v.month = FormFieldSet.month
                   /\ v.day = FormFieldSet.day
        /\ last.op = "on_generate" => last.msg = ExpectedError
        /\ last.op = "on_save_options"
              => (IF InputInvalid THEN last.msg = ExpectedError
                  ELSE last.msg \in {MSG_SAVED, RAISED})

C5_Witness ==
    /\ NameIsEmpty /\ SomeNumberFails /\ WeekdayIsUnknown
    /\ last.op = "on_generate"
    /\ last.msg = ERR_NAME

(***************************************************************************)
(* C6.  Load on a store nothing was saved to returns None (and reports     *)
(* that nothing is saved); Load on a store with a saved row returns a      *)
(* record.                                                                 *)
(***************************************************************************)
C6_LoadOnEmptyStore ==
    Loaded => IF db.rows = <<>>
              THEN last.data = None /\ last.msg = MSG_NOTHING_SAVED
              ELSE last.data.found /\ last.msg = MSG_LOADED

C6_Witness == Loaded /\ db.rows = <<>> /\ last.data = None

(***************************************************************************)
(* C7.  With resend checked: a blank reason puts the default reason into   *)
(* the body; a non-blank reason R is in the body verbatim.                 *)
(*   As claimed: and then the body does not contain the default reason.    *)
(*   As amended: and then the body contains the default reason only if R   *)
(*   or the name contains it.                                              *)
(***************************************************************************)
\* C7 as claimed: a non-blank reason keeps the default reason out of the body.
C7_ReasonAsClaimed ==
    (Generated /\ resend_var) =>
        LET R == Strip(resend_reason_var)
        IN  IF R = <<>>
            THEN Contains(content_text, DEFAULT_REASON)
            ELSE /\ Contains(content_text, R)
                 /\ ~Contains(content_text, DEFAULT_REASON)

\* C7 as amended: the body has the default reason for a blank reason, has a
\* non-blank reason R verbatim, and then has the default reason only if R or
\* the name contains it.
C7_ReasonInBody ==
    (Generated /\ resend_var) =>
        LET R == Strip(resend_reason_var)
        IN  IF R = <<>>
            THEN Contains(content_text, DEFAULT_REASON)
            ELSE /\ Contains(content_text, R)
                 /\ Contains(content_text, DEFAULT_REASON)
                       => \/ Contains(R, DEFAULT_REASON)
                          \/ Contains(Strip(name_var), DEFAULT_REASON)

C7_Witness ==
    /\ Generated
    /\ resend_var
    /\ Strip(resend_reason_var) = REASON_DELAY
    /\ Contains(content_text, REASON_DELAY)
    /\ ~Contains(content_text, DEFAULT_REASON)

(***************************************************************************)
(* C8.  For cohort 13, location Seoul, name Hong Gil-dong, day 5, 3/14,    *)
(* Thursday, resend off, the title is "[SSAFY] 13gi Seoul silseubkochi     *)
(* Hong Gil-dong 5ilcha Wrap Up songbu" and the attachment line reads      *)
(* "3wol 14il(mog) 5ilcha Wrap Up bogoseoreul cheombuhayeo                 *)
(* songbudeuribnida."; for every field-set with resend off the attachment  *)
(* line is built from month, day, weekday and day ordinal.                 *)
(*   As claimed: the attachment line is the second line of the body.       *)
(*   As amended: it is the third line; the second line is empty.           *)
(***************************************************************************)
ExampleFieldSet ==
    [cardinal      |-> [neg |-> FALSE, digits |-> <<"1", "3">>],
     location      |-> <<"seo", "ul">>,
     name          |-> <<"hong", "gil", "dong">>,
     nth_day       |-> [neg |-> FALSE, digits |-> <<"5">>],
     month         |-> [neg |-> FALSE, digits |-> <<"3">>],
     day           |-> [neg |-> FALSE, digits |-> <<"1", "4">>],
     day_of_week   |-> <<"mog">>,
     resend        |-> FALSE]

ExampleTitle ==
    <<"[", "S", "S", "A", "F", "Y", "]", " ", "1", "3", "gi", " ", "seo", "ul",
      " ", "sil", "seub", "ko", "chi", " ", "hong", "gil", "dong", " ", "5",
      "il", "cha", " ", "W", "r", "a", "p", " ", "U", "p", " ", "song", "bu">>

ExampleLine ==
    <<"3", "wol", " ", "1", "4", "il", "(", "mog", ")", " ", "5", "il", "cha",
      " ", "W", "r", "a", "p", " ", "U", "p", " ", "bo", "go", "seo", "reul",
      " ", "cheom", "bu", "ha", "yeo", " ", "song", "bu", "deu", "rib", "ni",
      "da", ".">>

IsExample ==
    \A f \in DOMAIN ExampleFieldSet : FormFieldSet[f] = ExampleFieldSet[f]

\* The attachment line a field-set calls for.
ExpectedLine(fs) ==
    IntToStr(fs.month) \o <<"wol", " ">> \o IntToStr(fs.day) \o <<"il", "(">>
        \o fs.day_of_week \o <<")", " ">> \o IntToStr(fs.nth_day)
        \o <<"il", "cha", " ", "W", "r", "a", "p", " ", "U", "p", " ", "bo",
             "go", "seo", "reul", " ", "cheom", "bu", "ha", "yeo", " ", "song",
             "bu", "deu", "rib", "ni", "da", ".">>

\* C8 as claimed: the attachment line is the second line of the body.
C8_SecondLineAsClaimed ==
    (Generated /\ ~resend_var) =>
        /\ SplitLines(content_text)[2] = ExpectedLine(FormFieldSet)
        /\ IsExample => /\ title_text = ExampleTitle
                        /\ SplitLines(content_text)[2] = ExampleLine

\* C8 as amended: the second line of the body is empty and the attachment line
\* is the third; the example's title and line are the texts claimed.
C8_ThirdLine ==
    (Generated /\ ~resend_var) =>
        /\ SplitLines(content_text)[2] = <<>>
        /\ SplitLines(content_text)[3] = ExpectedLine(FormFieldSet)
        /\ IsExample => /\ title_text = ExampleTitle
                        /\ SplitLines(content_text)[3] = ExampleLine

C8_Witness ==
    /\ Generated
    /\ ~resend_var
    /\ IsExample
    /\ title_text = ExampleTitle

(***************************************************************************)
(* C9.  The store changes only on a Save of a valid form, which adds one   *)
(* row; Today, Generate, Reset, Load and the resend toggle leave it as it  *)
(* is.                                                                     *)
(***************************************************************************)
C9_OnlySaveStores ==
    [][/\ db' # db => /\ last'.op = "on_save_options"
                      /\ last'.msg = MSG_SAVED
                      /\ ~InputInvalid
                      /\ db'.rows = Append(db.rows, db'.rows[Len(db'.rows)])
       /\ (on_today \/ on_generate \/ on_reset \/ on_load_options
             \/ ClickResend) => db' = db]_vars

C9_Witness ==
    /\ Generated
    /\ title_text # <<>>
    /\ Len(db.rows) = 1
    /\ ~SameFields(RowDict(db.rows[1]), FormFieldSet)

(***************************************************************************)
(* C10.  Every stored row has a non-empty name without surrounding         *)
(* whitespace, a weekday among the 7 labels and a location among the 5     *)
(* sites.                                                                  *)
(***************************************************************************)
C10_StoredRowsAreValid ==
    \A i \in 1..Len(db.rows) :
        /\ db.rows[i].name # <<>>
        /\ Strip(db.rows[i].name) = db.rows[i].name
        /\ db.rows[i].day_of_week \in Range(DAY_OF_WEEK_OPTIONS)
        /\ db.rows[i].location \in Range(LOCATION_OPTIONS)

C10_Witness ==
    /\ Saved
    /\ name_var # Strip(name_var)
    /\ db.rows[Len(db.rows)].name = NAME_HONG
    /\ db.rows[Len(db.rows)].location = LOCATION_OPTIONS[2]
    /\ \E i \in 1..Len(db.rows) : db.rows[i].location = LOCATION_OPTIONS[1]

====
